---------------------------- MODULE Spec2Model ----------------------------
(***************************************************************************)
(* State-machine model of the two address-management cores of              *)
(* nat-dhcp-lab:                                                           *)
(*   - LeasePool  (src/dhcp/lease_pool.py)                                 *)
(*   - NATTable   (src/nat/nat_table.py)                                   *)
(* Every public method is one action; the time value `now` of a call is an *)
(* input drawn from Times (LeasePool) or NatTimes (NATTable), in any order *)
(* (the callers in src/tests pass non-monotonic values).                   *)
(* A Python dict is modelled with its insertion                            *)
(* order where the code iterates over it (leases_by_client), and as a      *)
(* function where it does not.  A Lease / Mapping object referenced from   *)
(* two dicts is modelled by its field values in both; an in-place field    *)
(* assignment updates every reference to the object.                       *)
(***************************************************************************)
EXTENDS Integers, Sequences, FiniteSets, TLC

\* ------------------------------------------------------------------------
\* Bounds of the model
\* ------------------------------------------------------------------------
NumHosts == 3        \* hosts of the network block: 1..NumHosts
NumClients == 3      \* client ids c1..cNumClients
MaxTime == 3         \* time values passed to LeasePool as `now`: 0..MaxTime
lease_seconds == 2   \* constructor argument lease_seconds
PortCount == 2       \* size of the NAT port range [pmin, pmax]
NumKeyPorts == 2     \* internal ports 1..NumKeyPorts
timeout == 2         \* constructor argument timeout (idle time)
MaxNatTime == 2      \* time values passed to NATTable as `now`: 0..MaxNatTime

Hosts == 1..NumHosts
Clients == 1..NumClients
Times == 0..MaxTime
NatTimes == 0..MaxNatTime

None == [none |-> TRUE]

VARIABLES
    available,          \* LeasePool._available       (deque, head first)
    leases_by_client,   \* LeasePool._leases_by_client (dict, insertion order)
    leases_by_ip,       \* LeasePool._leases_by_ip     (dict)
    used,               \* history: addresses handed out at least once
    released,           \* history: addresses given back and not handed out
                        \* again since, in the order they were given back
    int2ext,            \* NATTable._int2ext (dict by internal key)
    ext2int,            \* NATTable._ext2int (dict by external port)
    bound               \* history: per key, the external port translate_out
                        \* returned for it, until release or expire removed
                        \* the mapping (0: none)

poolVars == <<available, leases_by_client, leases_by_ip, used, released>>
natVars == <<int2ext, ext2int, bound>>

\* ------------------------------------------------------------------------
\* Python containers
\* ------------------------------------------------------------------------
\* dataclass Lease(client_id, ip, expiry)
Lease(c, ip, e) == [client_id |-> c, ip |-> ip, expiry |-> e]

RECURSIVE SeqFilterOut(_, _)
\* the sequence s without the entries whose client_id is c
SeqFilterOut(s, c) ==
    IF s = << >> THEN << >>
    ELSE IF Head(s).client_id = c THEN SeqFilterOut(Tail(s), c)
         ELSE <<Head(s)>> \o SeqFilterOut(Tail(s), c)

\* dict.get(key) on the insertion-ordered dict keyed by client_id
DictGet(d, c) ==
    IF \E i \in 1..Len(d) : d[i].client_id = c
    THEN d[CHOOSE i \in 1..Len(d) : d[i].client_id = c]
    ELSE None

\* dict.pop(key, None): the dict afterwards
DictPop(d, c) == SeqFilterOut(d, c)

\* dict[key] = value: an existing key keeps its position, a new key is
\* appended
DictSet(d, c, v) ==
    IF \E i \in 1..Len(d) : d[i].client_id = c
    THEN [i \in 1..Len(d) |-> IF d[i].client_id = c THEN v ELSE d[i]]
    ELSE Append(d, v)

\* the state of one LeasePool object
PoolState(av, bc, bi) == [available |-> av, by_client |-> bc, by_ip |-> bi]

RECURSIVE AscendingSeq(_)
\* the elements of a finite set of integers in ascending order
AscendingSeq(S) ==
    IF S = {} THEN << >>
    ELSE LET m == CHOOSE x \in S : \A y \in S : x <= y
         IN  <<m>> \o AscendingSeq(S \ {m})

\* LeasePool.__init__: hosts of the block minus exclusions minus the first
\* host (gateway), in ascending order; both indices empty
Exclusions == {}
LeasePool_init ==
    LET excl == IF Hosts # {} THEN Exclusions \cup {1} ELSE Exclusions
    IN  PoolState(AscendingSeq(Hosts \ excl), << >>, [h \in Hosts |-> None])

\* ------------------------------------------------------------------------
\* LeasePool operations, as functions of the object state
\* ------------------------------------------------------------------------
RECURSIVE ExpireLoop_keepip(_, _)
\* variant of the loop that forgets self._leases_by_ip.pop(lease.ip, None)
ExpireLoop_keepip(st, cids) ==
    IF cids = << >> THEN st
    ELSE LET lease == DictGet(st.by_client, Head(cids))
             st1 == PoolState(Append(st.available, lease.ip),
                              DictPop(st.by_client, Head(cids)),
                              st.by_ip)
         IN  ExpireLoop_keepip(st1, Tail(cids))

RECURSIVE ExpireLoop_drop(_, _)
\* variant of the loop that forgets self._available.append(lease.ip)
ExpireLoop_drop(st, cids) ==
    IF cids = << >> THEN st
    ELSE LET lease == DictGet(st.by_client, Head(cids))
             st1 == PoolState(st.available,
                              DictPop(st.by_client, Head(cids)),
                              [st.by_ip EXCEPT ![lease.ip] = None])
         IN  ExpireLoop_drop(st1, Tail(cids))

RECURSIVE ExpireLoop_front(_, _)
\* variant of the loop with self._available.appendleft(lease.ip)
ExpireLoop_front(st, cids) ==
    IF cids = << >> THEN st
    ELSE LET lease == DictGet(st.by_client, Head(cids))
             st1 == PoolState(<<lease.ip>> \o st.available,
                              DictPop(st.by_client, Head(cids)),
                              [st.by_ip EXCEPT ![lease.ip] = None])
         IN  ExpireLoop_front(st1, Tail(cids))

RECURSIVE ExpireLoop(_, _)
\* the for-loop of expire over the list expired_clients
ExpireLoop(st, cids) ==
    IF cids = << >> THEN st
    ELSE LET lease == DictGet(st.by_client, Head(cids))
             st1 == PoolState(Append(st.available, lease.ip),
                              DictPop(st.by_client, Head(cids)),
                              [st.by_ip EXCEPT ![lease.ip] = None])
         IN  ExpireLoop(st1, Tail(cids))

RECURSIVE ExpiredClients_strict(_, _)
\* variant of the comprehension with L.expiry < now
ExpiredClients_strict(d, now) ==
    IF d = << >> THEN << >>
    ELSE IF Head(d).expiry < now
         THEN <<Head(d).client_id>> \o ExpiredClients_strict(Tail(d), now)
         ELSE ExpiredClients_strict(Tail(d), now)

RECURSIVE ExpiredClients_early(_, _)
\* variant of the comprehension with L.expiry <= now + 1
ExpiredClients_early(d, now) ==
    IF d = << >> THEN << >>
    ELSE IF Head(d).expiry <= now + 1
         THEN <<Head(d).client_id>> \o ExpiredClients_early(Tail(d), now)
         ELSE ExpiredClients_early(Tail(d), now)

RECURSIVE ExpiredClients(_, _)
\* [cid for cid, L in self._leases_by_client.items() if L.expiry <= now]
ExpiredClients(d, now) ==
    IF d = << >> THEN << >>
    ELSE IF Head(d).expiry <= now
         THEN <<Head(d).client_id>> \o ExpiredClients(Tail(d), now)
         ELSE ExpiredClients(Tail(d), now)

LeasePool_expire(st, now) ==
    LET expired_clients == ExpiredClients(st.by_client, now)
    IN  [st |-> ExpireLoop(st, expired_clients),
         ret |-> Len(expired_clients),
         raised |-> FALSE]

commit_lease(st, lease) ==
    LET stale == st.by_ip[lease.ip]
        bc1 == IF stale # None THEN DictPop(st.by_client, stale.client_id)
               ELSE st.by_client
    IN  PoolState(st.available,
                  DictSet(bc1, lease.client_id, lease),
                  [st.by_ip EXCEPT ![lease.ip] = lease])

\* variant of request without the early return for a live lease
LeasePool_request_noreuse(st, client_id, now) ==
    LET st1 == LeasePool_expire(st, now).st
    IN  IF st1.available = << >>
        THEN [st |-> st1, ret |-> None, raised |-> TRUE]
        ELSE LET ip == Head(st1.available)
                 st2 == PoolState(Tail(st1.available), st1.by_client, st1.by_ip)
                 new_lease == Lease(client_id, ip, now + lease_seconds)
             IN  [st |-> commit_lease(st2, new_lease), ret |-> ip,
                  raised |-> FALSE]

\* variant of request with self._available.pop() for popleft()
LeasePool_request_popright(st, client_id, now) ==
    LET st1 == LeasePool_expire(st, now).st
        lease == DictGet(st1.by_client, client_id)
    IN  IF lease # None /\ lease.expiry > now
        THEN [st |-> st1, ret |-> lease.ip, raised |-> FALSE]
        ELSE IF st1.available = << >>
        THEN [st |-> st1, ret |-> None, raised |-> TRUE]
        ELSE LET n == Len(st1.available)
                 ip == st1.available[n]
                 st2 == PoolState(SubSeq(st1.available, 1, n - 1),
                                  st1.by_client, st1.by_ip)
                 new_lease == Lease(client_id, ip, now + lease_seconds)
             IN  [st |-> commit_lease(st2, new_lease), ret |-> ip,
                  raised |-> FALSE]

LeasePool_request(st, client_id, now) ==
    LET st1 == LeasePool_expire(st, now).st
        lease == DictGet(st1.by_client, client_id)
    IN  IF lease # None /\ lease.expiry > now
        THEN [st |-> st1, ret |-> lease.ip, raised |-> FALSE]
        ELSE IF st1.available = << >>
        THEN [st |-> st1, ret |-> None, raised |-> TRUE]
        ELSE LET ip == Head(st1.available)
                 st2 == PoolState(Tail(st1.available), st1.by_client, st1.by_ip)
                 new_lease == Lease(client_id, ip, now + lease_seconds)
             IN  [st |-> commit_lease(st2, new_lease), ret |-> ip,
                  raised |-> FALSE]

\* lease.expiry = v on the object `lease`: seen through every reference
SetExpiry(st, lease, v) ==
    LET upd(L) == IF L = lease THEN [L EXCEPT !.expiry = v] ELSE L
    IN  PoolState(st.available,
                  [i \in 1..Len(st.by_client) |-> upd(st.by_client[i])],
                  [h \in Hosts |-> upd(st.by_ip[h])])

\* variant of renew that raises for a client without a live lease
LeasePool_renew_strict(st, client_id, now) ==
    LET st1 == LeasePool_expire(st, now).st
        lease == DictGet(st1.by_client, client_id)
    IN  IF lease # None /\ lease.expiry > now
        THEN [st |-> SetExpiry(st1, lease, now + lease_seconds),
              ret |-> lease.ip, raised |-> FALSE]
        ELSE [st |-> st1, ret |-> None, raised |-> TRUE]

LeasePool_renew(st, client_id, now) ==
    LET st1 == LeasePool_expire(st, now).st
        lease == DictGet(st1.by_client, client_id)
    IN  IF lease # None /\ lease.expiry > now
        THEN [st |-> SetExpiry(st1, lease, now + lease_seconds),
              ret |-> lease.ip, raised |-> FALSE]
        ELSE LeasePool_request(st1, client_id, now)

\* variant of release that forgets self._available.append(lease.ip)
LeasePool_release_noappend(st, client_id) ==
    LET lease == DictGet(st.by_client, client_id)
    IN  IF lease # None
        THEN [st |-> PoolState(st.available,
                               DictPop(st.by_client, client_id),
                               [st.by_ip EXCEPT ![lease.ip] = None]),
              ret |-> None, raised |-> FALSE]
        ELSE [st |-> st, ret |-> None, raised |-> FALSE]

\* variant of release that forgets self._leases_by_ip.pop(lease.ip, None)
LeasePool_release_keepip(st, client_id) ==
    LET lease == DictGet(st.by_client, client_id)
    IN  IF lease # None
        THEN [st |-> PoolState(Append(st.available, lease.ip),
                               DictPop(st.by_client, client_id),
                               st.by_ip),
              ret |-> None, raised |-> FALSE]
        ELSE [st |-> st, ret |-> None, raised |-> FALSE]

LeasePool_release(st, client_id) ==
    LET lease == DictGet(st.by_client, client_id)
    IN  IF lease # None
        THEN [st |-> PoolState(Append(st.available, lease.ip),
                               DictPop(st.by_client, client_id),
                               [st.by_ip EXCEPT ![lease.ip] = None]),
              ret |-> None, raised |-> FALSE]
        ELSE [st |-> st, ret |-> None, raised |-> FALSE]

\* ------------------------------------------------------------------------
\* The LeasePool state machine
\* ------------------------------------------------------------------------
Cur == PoolState(available, leases_by_client, leases_by_ip)

Range(s) == {s[i] : i \in 1..Len(s)}

\* the addresses the constructor put into the pool
Pool == Range(LeasePool_init.available)

RECURSIVE SeqWithout(_, _)
\* the sequence s without the element x
SeqWithout(s, x) ==
    IF s = << >> THEN << >>
    ELSE IF Head(s) = x THEN SeqWithout(Tail(s), x)
         ELSE <<Head(s)>> \o SeqWithout(Tail(s), x)

RECURSIVE IpsOf(_, _)
\* the addresses the clients cids hold in the dict d, in the order of cids
IpsOf(d, cids) ==
    IF cids = << >> THEN << >>
    ELSE <<DictGet(d, Head(cids)).ip>> \o IpsOf(d, Tail(cids))

\* the addresses whose leases a sweep at `now` ends, in the order it ends them
SweptIps(now) == IpsOf(leases_by_client, ExpiredClients(leases_by_client, now))

\* c holds a lease that is live at `now`
HoldsLive(c, now) ==
    /\ DictGet(leases_by_client, c) # None
    /\ DictGet(leases_by_client, c).expiry > now

\* the history of a call that handed back the addresses `back` and returned
\* r; `fresh` tells whether r.ret is a newly allocated address
History(back, fresh, r) ==
    /\ used' = IF fresh THEN used \cup {r.ret} ELSE used
    /\ released' = IF fresh THEN SeqWithout(released \o back, r.ret)
                   ELSE released \o back
    /\ UNCHANGED natVars

Commit(r) ==
    /\ available' = r.st.available
    /\ leases_by_client' = r.st.by_client
    /\ leases_by_ip' = r.st.by_ip

InitPool ==
    /\ available = LeasePool_init.available
    /\ leases_by_client = LeasePool_init.by_client
    /\ leases_by_ip = LeasePool_init.by_ip
    /\ used = {}
    /\ released = << >>

Request == \E c \in Clients, now \in Times :
    LET r == LeasePool_request(Cur, c, now)
    IN  /\ Commit(r)
        /\ History(SweptIps(now), ~r.raised /\ ~HoldsLive(c, now), r)

Renew == \E c \in Clients, now \in Times :
    LET r == LeasePool_renew(Cur, c, now)
    IN  /\ Commit(r)
        /\ History(SweptIps(now), ~r.raised /\ ~HoldsLive(c, now), r)

Release == \E c \in Clients :
    LET r == LeasePool_release(Cur, c)
        L == DictGet(leases_by_client, c)
    IN  /\ Commit(r)
        /\ History(IF L # None THEN <<L.ip>> ELSE << >>, FALSE, r)

Expire == \E now \in Times :
    LET r == LeasePool_expire(Cur, now)
    IN  /\ Commit(r)
        /\ History(SweptIps(now), FALSE, r)

Next == Request \/ Renew \/ Release \/ Expire


\* ------------------------------------------------------------------------
\* NATTable (src/nat/nat_table.py)
\* ------------------------------------------------------------------------
pmin == 30000
pmax == pmin + PortCount - 1
ExtPorts == pmin..pmax
public_ip == "203.0.113.5"

Protos == {"tcp", "TCP", "udp"}
InternalIps == {"10.0.0.2"}
InternalPorts == 1..NumKeyPorts

\* str.lower() on the protocol names in use
Lower(proto) == CASE proto = "TCP" -> "tcp"
                  [] proto = "UDP" -> "udp"
                  [] OTHER -> proto

\* variant of the key without proto.lower()
MakeKey_raw(proto, internal_ip, internal_port) ==
    <<proto, internal_ip, internal_port>>

\* Key = (proto, internal_ip, internal_port), as the operations build it
MakeKey(proto, internal_ip, internal_port) ==
    <<Lower(proto), internal_ip, internal_port>>

Keys == {MakeKey(pr, ip, po) : pr \in Protos, ip \in InternalIps,
                               po \in InternalPorts}

\* dataclass Mapping
Mapping(pr, ip, po, ext, seen) ==
    [proto |-> pr, internal_ip |-> ip, internal_port |-> po,
     external_port |-> ext, last_seen |-> seen]

\* the key under which expire looks a mapping up:
\* (m.proto, m.internal_ip, m.internal_port)
KeyOf(m) == <<m.proto, m.internal_ip, m.internal_port>>

\* the state of one NATTable object
NatState(i2e, e2i) == [int2ext |-> i2e, ext2int |-> e2i]

\* NATTable.__init__: both dicts empty
NATTable_init == NatState([k \in Keys |-> None], [p \in ExtPorts |-> None])

\* dict.get(port) on _ext2int
ExtGet(e2i, port) == IF port \in DOMAIN e2i THEN e2i[port] ELSE None

\* m.last_seen = now on the object m: seen through every reference
SetLastSeen(st, m, now) ==
    LET upd(x) == IF x = m THEN [x EXCEPT !.last_seen = now] ELSE x
    IN  NatState([k \in Keys |-> upd(st.int2ext[k])],
                 [p \in ExtPorts |-> upd(st.ext2int[p])])

\* variant of the scan with range(self.pmin, self.pmax)
alloc_port_short(st) ==
    LET free == {p \in pmin..(pmax - 1) : st.ext2int[p] = None}
    IN  IF free # {}
        THEN [port |-> CHOOSE p \in free : \A q \in free : p <= q,
              raised |-> FALSE]
        ELSE [port |-> 0, raised |-> TRUE]

\* variant of the scan that runs from pmax down to pmin
alloc_port_highest(st) ==
    LET free == {p \in pmin..pmax : st.ext2int[p] = None}
    IN  IF free # {}
        THEN [port |-> CHOOSE p \in free : \A q \in free : p >= q,
              raised |-> FALSE]
        ELSE [port |-> 0, raised |-> TRUE]

\* _alloc_port: the first p of range(pmin, pmax + 1) not in _ext2int
alloc_port(st) ==
    LET free == {p \in pmin..pmax : st.ext2int[p] = None}
    IN  IF free # {}
        THEN [port |-> CHOOSE p \in free : \A q \in free : p <= q,
              raised |-> FALSE]
        ELSE [port |-> 0, raised |-> TRUE]

\* variant of translate_out without the lookup of an existing mapping
translate_out_fresh(st, proto, internal_ip, internal_port, now) ==
    LET key == MakeKey(proto, internal_ip, internal_port)
        a == alloc_port(st)
        mapping == Mapping(key[1], key[2], key[3], a.port, now)
    IN  IF a.raised
        THEN [st |-> st, ret |-> None, raised |-> TRUE]
        ELSE [st |-> NatState([st.int2ext EXCEPT ![key] = mapping],
                              [st.ext2int EXCEPT ![a.port] = mapping]),
              ret |-> <<public_ip, a.port>>, raised |-> FALSE]

\* variant of translate_out that evicts idle mappings before the lookup
translate_out_sweep(st, proto, internal_ip, internal_port, now) ==
    LET gone == {p \in ExtPorts : st.ext2int[p] # None
                    /\ now - st.ext2int[p].last_seen >= timeout}
        st0 == NatState([k \in Keys |->
                            IF \E p \in gone : KeyOf(st.ext2int[p]) = k
                            THEN None ELSE st.int2ext[k]],
                        [p \in ExtPorts |->
                            IF p \in gone THEN None ELSE st.ext2int[p]])
        key == MakeKey(proto, internal_ip, internal_port)
        m == st0.int2ext[key]
        a == alloc_port(st0)
        mapping == Mapping(key[1], key[2], key[3], a.port, now)
    IN  IF m # None
        THEN [st |-> SetLastSeen(st0, m, now),
              ret |-> <<public_ip, m.external_port>>, raised |-> FALSE]
        ELSE IF a.raised
        THEN [st |-> st0, ret |-> None, raised |-> TRUE]
        ELSE [st |-> NatState([st0.int2ext EXCEPT ![key] = mapping],
                              [st0.ext2int EXCEPT ![a.port] = mapping]),
              ret |-> <<public_ip, a.port>>, raised |-> FALSE]

translate_out(st, proto, internal_ip, internal_port, now) ==
    LET key == MakeKey(proto, internal_ip, internal_port)
        m == st.int2ext[key]
        a == alloc_port(st)
        mapping == Mapping(key[1], key[2], key[3], a.port, now)
    IN  IF m # None
        THEN [st |-> SetLastSeen(st, m, now),
              ret |-> <<public_ip, m.external_port>>, raised |-> FALSE]
        ELSE IF a.raised
        THEN [st |-> st, ret |-> None, raised |-> TRUE]
        ELSE [st |-> NatState([st.int2ext EXCEPT ![key] = mapping],
                              [st.ext2int EXCEPT ![a.port] = mapping]),
              ret |-> <<public_ip, a.port>>, raised |-> FALSE]

\* the default now=None of translate_in, as a value apart from every time
NoTime == 0 - 1

\* variant of translate_in that reports a mapping idle for the timeout as
\* not found
translate_in_live(st, external_port, now) ==
    LET m == ExtGet(st.ext2int, external_port)
    IN  IF m = None \/ (now # NoTime /\ now - m.last_seen >= timeout)
        THEN [st |-> st, ret |-> None, raised |-> FALSE]
        ELSE [st |-> IF now # NoTime THEN SetLastSeen(st, m, now) ELSE st,
              ret |-> <<m.proto, m.internal_ip, m.internal_port>>,
              raised |-> FALSE]

\* translate_in; now = NoTime is the call without a time value
translate_in(st, external_port, now) ==
    LET m == ExtGet(st.ext2int, external_port)
    IN  IF m = None
        THEN [st |-> st, ret |-> None, raised |-> FALSE]
        ELSE [st |-> IF now # NoTime THEN SetLastSeen(st, m, now) ELSE st,
              ret |-> <<m.proto, m.internal_ip, m.internal_port>>,
              raised |-> FALSE]

\* variant of touch_by_internal that forgets m.last_seen = now
touch_by_internal_noset(st, proto, internal_ip, internal_port, now) ==
    LET key == MakeKey(proto, internal_ip, internal_port)
        m == st.int2ext[key]
    IN  IF m = None
        THEN [st |-> st, ret |-> FALSE, raised |-> FALSE]
        ELSE [st |-> st, ret |-> TRUE, raised |-> FALSE]

touch_by_internal(st, proto, internal_ip, internal_port, now) ==
    LET key == MakeKey(proto, internal_ip, internal_port)
        m == st.int2ext[key]
    IN  IF m = None
        THEN [st |-> st, ret |-> FALSE, raised |-> FALSE]
        ELSE [st |-> SetLastSeen(st, m, now), ret |-> TRUE, raised |-> FALSE]

\* variant of release that forgets self._ext2int.pop(m.external_port, None)
NATTable_release_keepext(st, proto, internal_ip, internal_port) ==
    LET key == MakeKey(proto, internal_ip, internal_port)
        m == st.int2ext[key]
    IN  IF m = None
        THEN [st |-> st, ret |-> FALSE, raised |-> FALSE]
        ELSE [st |-> NatState([st.int2ext EXCEPT ![key] = None], st.ext2int),
              ret |-> TRUE, raised |-> FALSE]

NATTable_release(st, proto, internal_ip, internal_port) ==
    LET key == MakeKey(proto, internal_ip, internal_port)
        m == st.int2ext[key]
    IN  IF m = None
        THEN [st |-> st, ret |-> FALSE, raised |-> FALSE]
        ELSE [st |-> NatState([st.int2ext EXCEPT ![key] = None],
                              [p \in ExtPorts |->
                                  IF p = m.external_port THEN None
                                  ELSE st.ext2int[p]]),
              ret |-> TRUE, raised |-> FALSE]

\* variant of expire with now - m.last_seen > self.timeout
NATTable_expire_late(st, now) ==
    LET to_remove == {p \in ExtPorts : st.ext2int[p] # None
                         /\ now - st.ext2int[p].last_seen > timeout}
        keys == {KeyOf(st.ext2int[p]) : p \in to_remove}
    IN  [st |-> NatState([k \in Keys |->
                             IF k \in keys THEN None ELSE st.int2ext[k]],
                         [p \in ExtPorts |->
                             IF p \in to_remove THEN None ELSE st.ext2int[p]]),
         ret |-> Cardinality(to_remove),
         raised |-> FALSE]

\* expire: to_remove is taken from _ext2int; each port is popped there and
\* the key of its mapping is popped from _int2ext (pops of different ports
\* commute, so the order of the loop does not show in the result)
NATTable_expire(st, now) ==
    LET to_remove == {p \in ExtPorts : st.ext2int[p] # None
                         /\ now - st.ext2int[p].last_seen >= timeout}
        keys == {KeyOf(st.ext2int[p]) : p \in to_remove}
    IN  [st |-> NatState([k \in Keys |->
                             IF k \in keys THEN None ELSE st.int2ext[k]],
                         [p \in ExtPorts |->
                             IF p \in to_remove THEN None ELSE st.ext2int[p]]),
         ret |-> Cardinality(to_remove),
         raised |-> FALSE]

\* ------------------------------------------------------------------------
\* The NATTable state machine
\* ------------------------------------------------------------------------
CurNat == NatState(int2ext, ext2int)

InitNat ==
    /\ int2ext = NATTable_init.int2ext
    /\ ext2int = NATTable_init.ext2int
    /\ bound = [k \in Keys |-> 0]

CommitNat(r) ==
    /\ int2ext' = r.st.int2ext
    /\ ext2int' = r.st.ext2int
    /\ UNCHANGED poolVars

\* ports asked for by inbound traffic: the range and one port on either side
ProbePorts == (pmin - 1)..(pmax + 1)

TranslateOut ==
    \E pr \in Protos, ip \in InternalIps, po \in InternalPorts, now \in NatTimes :
        LET r == translate_out(CurNat, pr, ip, po, now)
        IN  /\ CommitNat(r)
            /\ bound' = IF r.raised THEN bound
                        ELSE [bound EXCEPT ![MakeKey(pr, ip, po)] = r.ret[2]]

TranslateIn ==
    \E ep \in ProbePorts, now \in NatTimes \cup {NoTime} :
        /\ CommitNat(translate_in(CurNat, ep, now))
        /\ UNCHANGED bound

TouchByInternal ==
    \E pr \in Protos, ip \in InternalIps, po \in InternalPorts, now \in NatTimes :
        /\ CommitNat(touch_by_internal(CurNat, pr, ip, po, now))
        /\ UNCHANGED bound

NatRelease ==
    \E pr \in Protos, ip \in InternalIps, po \in InternalPorts :
        LET r == NATTable_release(CurNat, pr, ip, po)
        IN  /\ CommitNat(r)
            /\ bound' = IF r.ret THEN [bound EXCEPT ![MakeKey(pr, ip, po)] = 0]
                        ELSE bound

NatExpire ==
    \E now \in NatTimes :
        /\ CommitNat(NATTable_expire(CurNat, now))
        /\ bound' = [k \in Keys |->
                        IF int2ext[k] # None
                           /\ now - int2ext[k].last_seen >= timeout
                        THEN 0 ELSE bound[k]]

NextNat == TranslateOut \/ TranslateIn \/ TouchByInternal \/ NatRelease
           \/ NatExpire

\* ------------------------------------------------------------------------
\* The two specifications: one object each, the other left as constructed
\* ------------------------------------------------------------------------
vars == <<available, leases_by_client, leases_by_ip, used, released,
          int2ext, ext2int, bound>>

Init == InitPool /\ InitNat

Spec == Init /\ [][Next]_vars

SpecNat == Init /\ [][NextNat]_vars

\* ------------------------------------------------------------------------
\* Properties of the LeasePool
\* ------------------------------------------------------------------------
LeasedByClient == {leases_by_client[i].ip : i \in 1..Len(leases_by_client)}
LeasedByIp == {h \in Hosts : leases_by_ip[h] # None}

\* C1: every address of the constructed pool is in exactly one of the
\* available queue and the leased index, the queue holds no address twice,
\* and available plus leased is the constructed pool.
C1_Partition ==
    /\ \A i, j \in 1..Len(available) : i # j => available[i] # available[j]
    /\ Range(available) \cap LeasedByIp = {}
    /\ Range(available) \cup LeasedByIp = Pool
    /\ Range(available) \cap LeasedByClient = {}
    /\ Range(available) \cup LeasedByClient = Pool
    /\ Len(available) + Len(leases_by_client) = Cardinality(Pool)

\* C1 witness: an address is leased while another has been handed back and
\* waits in the queue.
C1_Witness ==
    /\ Len(leases_by_client) >= 1
    /\ released # << >>
    /\ Len(available) >= 1

\* C2: each client holds at most one lease, each address is referenced by at
\* most one lease, and the two indices hold the same leases, each under its
\* own client id and its own address.
C2_LeaseUnique ==
    /\ \A i, j \in 1..Len(leases_by_client) : i # j =>
          /\ leases_by_client[i].client_id # leases_by_client[j].client_id
          /\ leases_by_client[i].ip # leases_by_client[j].ip
    /\ \A i \in 1..Len(leases_by_client) :
          leases_by_ip[leases_by_client[i].ip] = leases_by_client[i]
    /\ \A h \in Hosts : leases_by_ip[h] # None =>
          /\ leases_by_ip[h].ip = h
          /\ DictGet(leases_by_client, leases_by_ip[h].client_id) = leases_by_ip[h]

\* C2 witness: two leases with different expiries are indexed, the later one
\* on an address that was handed back before (the lower address).
C2_Witness ==
    /\ Len(leases_by_client) = 2
    /\ leases_by_client[1].expiry # leases_by_client[2].expiry
    /\ leases_by_client[1].ip > leases_by_client[2].ip
    /\ leases_by_ip[leases_by_client[2].ip] = leases_by_client[2]

\* what a call request(c, now) does to a client that holds a live lease: the
\* lease's address is returned, the lease stays as it is in both indices, and
\* the queue grows by the addresses of the leases the call's sweep ends
RerequestKeeps(c, now) ==
    LET L == DictGet(leases_by_client, c)
        r == LeasePool_request(Cur, c, now)
    IN  /\ ~r.raised
        /\ r.ret = L.ip
        /\ DictGet(r.st.by_client, c) = L
        /\ r.st.by_ip[L.ip] = L
        /\ r.st.available = available \o SweptIps(now)

\* C3 as stated, for two calls that follow one another: after request(c, t1)
\* returned a, request(c, t2) with t1 <= t2 < expiry returns a and changes
\* neither the lease's expiry nor the available queue.
C3_RerequestChangesNothing ==
    \A c \in Clients, t1, t2 \in Times :
        LET r1 == LeasePool_request(Cur, c, t1)
            L1 == DictGet(r1.st.by_client, c)
            r2 == LeasePool_request(r1.st, c, t2)
        IN  (~r1.raised /\ t2 >= t1 /\ t2 < L1.expiry) =>
                /\ ~r2.raised
                /\ r2.ret = r1.ret
                /\ DictGet(r2.st.by_client, c).expiry = L1.expiry
                /\ r2.st.available = r1.st.available

\* C3 amended: a client that holds a lease on a which is live at t2 (as it
\* does after request(c, t1) returned a, t1 <= t2 < expiry, until release(c)
\* or a sweep at or after the expiry ends the lease) gets a from
\* request(c, t2), its lease unchanged; the queue is changed only by the
\* addresses of the other leases with expiry <= t2, appended by the sweep.
C3_Rerequest ==
    /\ \A c \in Clients, t2 \in Times : HoldsLive(c, t2) => RerequestKeeps(c, t2)
    /\ \A c \in Clients, t1, t2 \in Times :
        LET r1 == LeasePool_request(Cur, c, t1)
            L1 == DictGet(r1.st.by_client, c)
            r2 == LeasePool_request(r1.st, c, t2)
        IN  (~r1.raised /\ t2 >= t1 /\ t2 < L1.expiry) =>
                /\ ~r2.raised
                /\ r2.ret = r1.ret
                /\ DictGet(r2.st.by_client, c) = L1

\* C3 witness: a client holds a live lease at a time at which another
\* client's lease has run out, so that its request sweeps.
C3_Witness ==
    \E c \in Clients, t2 \in Times :
        /\ HoldsLive(c, t2)
        /\ SweptIps(t2) # << >>
        /\ LeasePool_request(Cur, c, t2).ret = DictGet(leases_by_client, c).ip

\* C4: renew(c, now) on a lease that is live at now returns the lease's
\* address and leaves an expiry that is not less than the one before.
C4_RenewNeverShrinks ==
    \A c \in Clients, now \in Times :
        HoldsLive(c, now) =>
            LET L == DictGet(leases_by_client, c)
                r == LeasePool_renew(Cur, c, now)
            IN  /\ ~r.raised
                /\ r.ret = L.ip
                /\ DictGet(r.st.by_client, c).expiry >= L.expiry

\* C5: the queue is the never used addresses in ascending order followed by
\* the addresses handed back, in the order in which they were handed back;
\* an allocating call returns the head of the queue as its sweep left it.
C5_Fifo ==
    /\ available = AscendingSeq(Pool \ used) \o released
    /\ \A c \in Clients, now \in Times :
          LET r == LeasePool_request(Cur, c, now)
              q == available \o SweptIps(now)
          IN  (~r.raised /\ ~HoldsLive(c, now)) =>
                  /\ r.ret = Head(q)
                  /\ r.st.available = Tail(q)
    /\ \A c \in Clients :
          LET L == DictGet(leases_by_client, c)
          IN  L # None =>
                LeasePool_release(Cur, c).st.available = Append(available, L.ip)

\* C5 witness: two addresses were handed back, the higher one first, and the
\* next allocation returns the higher one.
C5_Witness ==
    /\ Len(released) >= 2
    /\ released[1] > released[2]
    /\ \E c \in Clients, now \in Times :
          LeasePool_request(Cur, c, now).ret = released[1]

\* C6: request and renew raise exactly when, the sweep done, the client holds
\* no live lease and the queue is empty; a call that raises leaves the queue
\* and both indices as they were.
Exhausted(c, now) ==
    /\ ~HoldsLive(c, now)
    /\ available = << >>
    /\ \A i \in 1..Len(leases_by_client) : leases_by_client[i].expiry > now

C6_ExhaustionNoEffect ==
    \A c \in Clients, now \in Times :
        LET rq == LeasePool_request(Cur, c, now)
            rn == LeasePool_renew(Cur, c, now)
        IN  /\ rq.raised <=> Exhausted(c, now)
            /\ rn.raised <=> Exhausted(c, now)
            /\ rq.raised => rq.st = Cur
            /\ rn.raised => rn.st = Cur

\* C6 witness: every address is leased, on leases with different expiries,
\* and a client without a lease gets the error from request and from renew.
C6_Witness ==
    \E c \in Clients, now \in Times :
        /\ LeasePool_request(Cur, c, now).raised
        /\ LeasePool_renew(Cur, c, now).raised
        /\ Len(leases_by_client) = Cardinality(Pool)
        /\ leases_by_client[1].expiry # leases_by_client[2].expiry

\* C7: expire(now) removes the leases with expiry <= now and no others from
\* both indices, appends their addresses to the queue, returns their number;
\* expire(now) called again at once returns 0 and changes nothing.
C7_Expire ==
    \A now \in Times :
        LET r == LeasePool_expire(Cur, now)
            r2 == LeasePool_expire(r.st, now)
            gone == {i \in 1..Len(leases_by_client) :
                        leases_by_client[i].expiry <= now}
        IN  /\ r.st.by_client = SelectSeq(leases_by_client,
                                          LAMBDA L : L.expiry > now)
            /\ \A h \in Hosts :
                  r.st.by_ip[h] =
                      IF leases_by_ip[h] # None /\ leases_by_ip[h].expiry <= now
                      THEN None ELSE leases_by_ip[h]
            /\ Len(r.st.available) = Len(available) + Cardinality(gone)
            /\ SubSeq(r.st.available, 1, Len(available)) = available
            /\ Range(r.st.available) =
                  Range(available) \cup {leases_by_client[i].ip : i \in gone}
            /\ r.ret = Cardinality(gone)
            /\ ~r.raised
            /\ r2.ret = 0
            /\ r2.st = r.st

\* C7 witness: a sweep that ends one of two leases and keeps the other.
C7_Witness ==
    \E now \in Times :
        /\ Len(leases_by_client) = 2
        /\ LeasePool_expire(Cur, now).ret = 1

\* C16: request(d, now) and renew(d, now) never return an address that is
\* leased, when the call is made, to another client on a lease with
\* expiry > now; that lease stays as it is in both indices.
C16_NoTransfer ==
    \A c, d \in Clients, now \in Times :
        (c # d /\ HoldsLive(c, now)) =>
            LET L == DictGet(leases_by_client, c)
                rq == LeasePool_request(Cur, d, now)
                rn == LeasePool_renew(Cur, d, now)
            IN  /\ rq.raised \/ rq.ret # L.ip
                /\ rn.raised \/ rn.ret # L.ip
                /\ DictGet(rq.st.by_client, c) = L /\ rq.st.by_ip[L.ip] = L
                /\ DictGet(rn.st.by_client, c) = L /\ rn.st.by_ip[L.ip] = L

\* C16 witness: with the queue empty, one lease run out and one live at
\* `now`, a third client is given the address of the lease that ran out.
C16_Witness ==
    \E c, d \in Clients, now \in Times :
        /\ c # d
        /\ HoldsLive(c, now)
        /\ available = << >>
        /\ DictGet(leases_by_client, d) = None
        /\ ~LeasePool_request(Cur, d, now).raised
        /\ LeasePool_request(Cur, d, now).ret \in LeasedByIp

\* C18: the address that request takes from the queue has no entry in the
\* by-address index when _commit_lease runs, so the guard removes nobody's
\* lease.
C18_GuardUnreachable ==
    \A c \in Clients, now \in Times :
        LET st1 == LeasePool_expire(Cur, now).st
            r == LeasePool_request(Cur, c, now)
        IN  (~HoldsLive(c, now) /\ st1.available # << >>) =>
                /\ st1.by_ip[Head(st1.available)] = None
                /\ Len(r.st.by_client) = Len(st1.by_client) + 1

\* C18 witness: request takes an address that was leased before and handed
\* back, while another client holds a lease.
C18_Witness ==
    \E c \in Clients, now \in Times :
        /\ ~HoldsLive(c, now)
        /\ Len(leases_by_client) >= 1
        /\ SweptIps(now) = << >>
        /\ released # << >>
        /\ LeasePool_request(Cur, c, now).ret = released[1]

\* C19: for a client that holds no lease that is live at now (none at all,
\* or one with expiry <= now), renew(c, now) returns what request(c, now)
\* returns, error included, and leaves the same queue and the same indices,
\* the new lease with expiry now + lease_duration.
C19_RenewAsRequest ==
    \A c \in Clients, now \in Times :
        ~HoldsLive(c, now) =>
            LET rq == LeasePool_request(Cur, c, now)
                rn == LeasePool_renew(Cur, c, now)
            IN  /\ rn.raised = rq.raised
                /\ rn.ret = rq.ret
                /\ rn.st.available = rq.st.available
                /\ rn.st.by_client = rq.st.by_client
                /\ rn.st.by_ip = rq.st.by_ip
                /\ ~rn.raised =>
                      DictGet(rn.st.by_client, c) =
                          Lease(c, rn.ret, now + lease_seconds)

\* C19 witness: a client whose lease has run out at now, another lease still
\* live, gets a new lease from renew.
C19_Witness ==
    \E c \in Clients, now \in Times :
        /\ DictGet(leases_by_client, c) # None
        /\ ~HoldsLive(c, now)
        /\ Len(leases_by_client) = 2
        /\ Len(SweptIps(now)) = 1
        /\ ~LeasePool_renew(Cur, c, now).raised

\* C20: when c's lease has run out at now, request(c, now) and renew(c, now)
\* put c's old address at the tail of the queue, behind what was queued, and
\* give c the head of the queue; c gets its old address back only if the
\* queue was empty and its lease is the first one the sweep ends.
C20_ReallocationAfterExpiry ==
    \A c \in Clients, now \in Times :
        LET L == DictGet(leases_by_client, c)
            q == available \o SweptIps(now)
            rq == LeasePool_request(Cur, c, now)
            rn == LeasePool_renew(Cur, c, now)
        IN  (L # None /\ L.expiry <= now) =>
                /\ ~rq.raised /\ ~rn.raised
                /\ \E i \in (Len(available) + 1)..Len(q) : q[i] = L.ip
                /\ rq.ret = Head(q) /\ rn.ret = Head(q)
                /\ rq.st.available = Tail(q) /\ rn.st.available = Tail(q)
                /\ rq.ret = L.ip <=>
                      (available = << >> /\ SweptIps(now)[1] = L.ip)

\* C20 witness: a client whose lease has run out asks again while an address
\* is queued, and is given that address instead of its old one.
C20_Witness ==
    \E c \in Clients, now \in Times :
        /\ DictGet(leases_by_client, c) # None
        /\ DictGet(leases_by_client, c).expiry <= now
        /\ available # << >>
        /\ LeasePool_request(Cur, c, now).ret = Head(available)
        /\ LeasePool_request(Cur, c, now).ret # DictGet(leases_by_client, c).ip

\* ------------------------------------------------------------------------
\* Properties of the NATTable
\* ------------------------------------------------------------------------
Mapped == {k \in Keys : int2ext[k] # None}
Owned == {p \in ExtPorts : ext2int[p] # None}

\* C8: each key has at most one mapping, each external port is owned by at
\* most one mapping, two keys never hold the same external port, and the
\* two indices hold the same mappings.
C8_MappingUnique ==
    /\ \A k \in Mapped :
          /\ KeyOf(int2ext[k]) = k
          /\ int2ext[k].external_port \in ExtPorts
          /\ ext2int[int2ext[k].external_port] = int2ext[k]
    /\ \A p \in Owned :
          /\ ext2int[p].external_port = p
          /\ KeyOf(ext2int[p]) \in Keys
          /\ int2ext[KeyOf(ext2int[p])] = ext2int[p]
    /\ \A k1, k2 \in Mapped :
          k1 # k2 => int2ext[k1].external_port # int2ext[k2].external_port
    /\ Cardinality(Mapped) = Cardinality(Owned)

\* C8 witness: two mappings seen last at different times, the one on the
\* lowest port seen later than the other (its port was freed and taken again,
\* or it was refreshed).
C8_Witness ==
    /\ Cardinality(Mapped) = 2
    /\ ext2int[pmin] # None /\ ext2int[pmin + 1] # None
    /\ ext2int[pmin].last_seen > ext2int[pmin + 1].last_seen

\* the N ports of the range are held by N mapped tuples
Full == Cardinality(Mapped) = PortCount

\* C9: on a table holding N mappings translate_out raises for a further
\* tuple and leaves both indices as they were (keys, ports, last_seen), and
\* succeeds for a mapped tuple; it raises in no other case.
C9_PortExhaustion ==
    \A pr \in Protos, ip \in InternalIps, po \in InternalPorts, now \in NatTimes :
        LET key == MakeKey(pr, ip, po)
            r == translate_out(CurNat, pr, ip, po, now)
        IN  /\ (Full /\ key \notin Mapped) => (r.raised /\ r.st = CurNat)
            /\ (Full /\ key \in Mapped) =>
                  /\ ~r.raised
                  /\ r.ret = <<public_ip, int2ext[key].external_port>>
            /\ r.raised => (Full /\ key \notin Mapped)

\* C9 witness: a full table, whose mappings have all been idle for the
\* timeout, refuses a further tuple.
C9_Witness ==
    /\ Full
    /\ \E pr \in Protos, ip \in InternalIps, po \in InternalPorts,
          now \in NatTimes :
          /\ translate_out(CurNat, pr, ip, po, now).raised
          /\ \A k \in Mapped : now - int2ext[k].last_seen >= timeout

\* C10: a tuple that translate_out bound to port p gets p and the public
\* address from every later translate_out, until release or an expire sweep
\* removes its mapping.
C10_StableOutbound ==
    \A pr \in Protos, ip \in InternalIps, po \in InternalPorts, now \in NatTimes :
        LET key == MakeKey(pr, ip, po)
            r == translate_out(CurNat, pr, ip, po, now)
        IN  bound[key] # 0 =>
                /\ ~r.raised
                /\ r.ret = <<public_ip, bound[key]>>
                /\ r.st.int2ext[key].external_port = bound[key]

\* C10 witness: a tuple is bound to the second port while the first port is
\* free again, and translate_out still returns the second port.
C10_Witness ==
    \E pr \in Protos, ip \in InternalIps, po \in InternalPorts, now \in NatTimes :
        /\ bound[MakeKey(pr, ip, po)] = pmin + 1
        /\ ext2int[pmin] = None
        /\ translate_out(CurNat, pr, ip, po, now).ret = <<public_ip, pmin + 1>>

\* C11: translate_in on the port that translate_out returned for a tuple
\* gives back that tuple (protocol in lower case, address, port) and no
\* other, with or without a time value, until release or an expire sweep
\* removes the mapping.
C11_RoundTrip ==
    \A pr \in Protos, ip \in InternalIps, po \in InternalPorts :
        LET key == MakeKey(pr, ip, po)
            tuple == <<Lower(pr), ip, po>>
        IN  /\ bound[key] # 0 =>
                  \A now \in NatTimes \cup {NoTime} :
                      translate_in(CurNat, bound[key], now).ret = tuple
            /\ \A t \in NatTimes :
                  LET r == translate_out(CurNat, pr, ip, po, t)
                      st == r.st
                      port == r.ret[2]
                  IN  ~r.raised =>
                        \A now \in NatTimes \cup {NoTime} :
                            translate_in(st, port, now).ret = tuple

\* C11 witness: a tuple holds the second port while another tuple holds the
\* first, and translate_in on the port bound to its upper-case spelling
\* returns the tuple in lower case.
C11_Witness ==
    /\ bound[<<"tcp", "10.0.0.2", 1>>] = pmin + 1
    /\ ext2int[pmin] # None
    /\ translate_in(CurNat, bound[MakeKey("TCP", "10.0.0.2", 1)], NoTime).ret
          = <<"tcp", "10.0.0.2", 1>>

\* the mapping m has been idle for the timeout at `now`
Idle(m, now) == now - m.last_seen >= timeout

HeldPorts == {int2ext[k].external_port : k \in Mapped}

\* C13: a translate_out that creates a mapping gives it the smallest port of
\* [pmin, pmax] that no mapping holds, a port freed by release or expire
\* included; every port a mapping holds lies in [pmin, pmax].
C13_LowestFree ==
    /\ \A pr \in Protos, ip \in InternalIps, po \in InternalPorts,
          now \in NatTimes :
          LET key == MakeKey(pr, ip, po)
              r == translate_out(CurNat, pr, ip, po, now)
          IN  (key \notin Mapped /\ ~r.raised) =>
                  /\ r.ret[2] \in (pmin..pmax) \ HeldPorts
                  /\ \A q \in (pmin..pmax) \ HeldPorts : r.ret[2] <= q
                  /\ r.st.int2ext[key].external_port = r.ret[2]
    /\ \A k \in Mapped :
          pmin <= int2ext[k].external_port /\ int2ext[k].external_port <= pmax
    /\ \A p \in Owned :
          pmin <= ext2int[p].external_port /\ ext2int[p].external_port <= pmax

\* C13 witness: the first port is free again while the second is held, and
\* a new tuple is given the first port.
C13_Witness ==
    /\ ext2int[pmin] = None
    /\ ext2int[pmin + 1] # None
    /\ \E pr \in Protos, ip \in InternalIps, po \in InternalPorts,
          now \in NatTimes :
          /\ MakeKey(pr, ip, po) \notin Mapped
          /\ translate_out(CurNat, pr, ip, po, now).ret = <<public_ip, pmin>>

\* the call result r keeps every mapping of both indices, under its key and
\* its port, with its tuple and its port as they were
KeepsMappings(r) ==
    /\ \A k \in Mapped :
          /\ r.st.int2ext[k] # None
          /\ KeyOf(r.st.int2ext[k]) = k
          /\ r.st.int2ext[k].external_port = int2ext[k].external_port
    /\ \A p \in Owned :
          /\ r.st.ext2int[p] # None
          /\ r.st.ext2int[p].external_port = p
          /\ KeyOf(r.st.ext2int[p]) = KeyOf(ext2int[p])

\* every port of the range is held by a mapping that has been idle for the
\* timeout at `now`
FullOfIdle(now) ==
    /\ \A p \in ExtPorts : ext2int[p] # None /\ Idle(ext2int[p], now)
    /\ Mapped # {}

\* C14: translate_out, translate_in and touch_by_internal remove no mapping,
\* whatever time they are given; a table whose ports are all held by
\* mappings idle for the timeout still refuses a new tuple.
C14_NoImplicitExpiry ==
    /\ \A pr \in Protos, ip \in InternalIps, po \in InternalPorts,
          now \in NatTimes :
          LET ro == translate_out(CurNat, pr, ip, po, now)
              rt == touch_by_internal(CurNat, pr, ip, po, now)
          IN  /\ KeepsMappings(ro)
              /\ KeepsMappings(rt)
              /\ (FullOfIdle(now) /\ MakeKey(pr, ip, po) \notin Mapped) =>
                    (ro.raised /\ ro.st = CurNat)
    /\ \A ep \in ProbePorts, now \in NatTimes \cup {NoTime} :
          KeepsMappings(translate_in(CurNat, ep, now))

\* C14 witness: all ports are held by mappings idle for the timeout,
\* translate_in touches one of them and it stays, and a new tuple is
\* refused.
C14_Witness ==
    \E now \in NatTimes :
        /\ FullOfIdle(now)
        /\ translate_in(CurNat, pmin, now).st.ext2int[pmin].last_seen = now
        /\ \E pr \in Protos, ip \in InternalIps, po \in InternalPorts :
              /\ MakeKey(pr, ip, po) \notin Mapped
              /\ translate_out(CurNat, pr, ip, po, now).raised

\* C15 as stated: translate_in(external_port, now) returns a tuple only when
\* a mapping with now - last_seen < timeout owns the port, and not-found
\* when the owning mapping has been idle for the timeout or no mapping owns
\* the port.
C15_InboundOnlyLive ==
    \A ep \in ProbePorts, now \in NatTimes :
        LET m == ExtGet(ext2int, ep)
            r == translate_in(CurNat, ep, now)
        IN  /\ r.ret # None => (m # None /\ ~Idle(m, now))
            /\ (m = None \/ Idle(m, now)) => r.ret = None

\* C15 amended: translate_in returns the tuple of the mapping that owns the
\* port in the external-port index, whatever its idle time, and refreshes
\* it when a time value is given; it returns not-found exactly when no
\* mapping owns the port (none was created, or release or expire removed it).
C15_InboundFound ==
    \A ep \in ProbePorts, now \in NatTimes \cup {NoTime} :
        LET m == ExtGet(ext2int, ep)
            r == translate_in(CurNat, ep, now)
        IN  /\ ~r.raised
            /\ m = None => (r.ret = None /\ r.st = CurNat)
            /\ m # None =>
                  /\ <<m.proto, m.internal_ip, m.internal_port>> = r.ret
                  /\ r.st.ext2int[ep].last_seen =
                        IF now = NoTime THEN m.last_seen ELSE now

\* C15 witness: a mapping idle for the timeout and not yet swept is returned
\* by translate_in and seen at the time of the call afterwards.
C15_Witness ==
    \E ep \in ExtPorts, now \in NatTimes :
        /\ ext2int[ep] # None
        /\ Idle(ext2int[ep], now)
        /\ translate_in(CurNat, ep, now).ret = KeyOf(ext2int[ep])
        /\ translate_in(CurNat, ep, now).st.ext2int[ep].last_seen = now

\* in the state st the mapping of key k, on port p, was seen last at t in
\* both indices, and no expire(now) with now - t < timeout removes it
SeenAt(st, k, p, t) ==
    /\ st.int2ext[k] # None
    /\ st.int2ext[k].last_seen = t
    /\ st.int2ext[k].external_port = p
    /\ st.ext2int[p] = st.int2ext[k]
    /\ \A now \in NatTimes :
          now - t < timeout =>
              LET swept == NATTable_expire(st, now).st
              IN  /\ swept.int2ext[k] = st.int2ext[k]
                  /\ swept.ext2int[p] = st.ext2int[p]

\* C17: translate_out on a mapped tuple, translate_in with a time value and
\* touch_by_internal set last_seen to the given now (touch_by_internal
\* leaves the table as translate_out on the same mapped tuple does);
\* translate_in without a time value changes nothing; touch_by_internal on
\* an unknown tuple returns false and creates nothing; a mapping refreshed
\* at t survives every expire(now) with now - t < timeout.
C17_Refresh ==
    /\ \A pr \in Protos, ip \in InternalIps, po \in InternalPorts,
          now \in NatTimes :
          LET key == MakeKey(pr, ip, po)
              ro == translate_out(CurNat, pr, ip, po, now)
              rt == touch_by_internal(CurNat, pr, ip, po, now)
          IN  /\ key \in Mapped =>
                    /\ SeenAt(ro.st, key, int2ext[key].external_port, now)
                    /\ rt.ret = TRUE
                    /\ rt.st = ro.st
              /\ key \notin Mapped =>
                    /\ rt.ret = FALSE
                    /\ rt.st = CurNat
    /\ \A p \in Owned :
          /\ translate_in(CurNat, p, NoTime).st = CurNat
          /\ \A now \in NatTimes :
                SeenAt(translate_in(CurNat, p, now).st, KeyOf(ext2int[p]), p, now)

\* C17 witness: a mapping idle for the timeout is touched and then survives
\* the sweep at the same time, which would have removed it untouched.
C17_Witness ==
    \E pr \in Protos, ip \in InternalIps, po \in InternalPorts, now \in NatTimes :
        LET key == MakeKey(pr, ip, po)
        IN  /\ key \in Mapped
            /\ NATTable_expire(CurNat, now).st.int2ext[key] = None
            /\ touch_by_internal(CurNat, pr, ip, po, now).ret
            /\ NATTable_expire(touch_by_internal(CurNat, pr, ip, po, now).st,
                               now).st.int2ext[key] # None

=============================================================================
